---- MODULE Spec2Model ----
(***************************************************************************)
(* The JVC projector client (jvc_projector/jvcprojector.py) and its        *)
(* command catalog (jvc_projector/jvccommands.py) as a state machine.      *)
(*                                                                         *)
(* Byte strings are sequences of byte values (0..255).  Each coroutine of  *)
(* the client is a record co[t]; an action is the code a coroutine runs    *)
(* between two suspension points (await) of the asyncio event loop.        *)
(***************************************************************************)
EXTENDS Integers, Sequences, FiniteSets, TLC

\* Bounds of the model: the clock's range in ticks, the largest configured
\* delay_seconds in ticks, and the number of calls made on the client.
MaxTime == 4
MaxDelay == 2
MaxCalls == 2

(***************************************************************************)
(* jvccommands.py: headers and catalogs                                    *)
(***************************************************************************)
OPR == <<33, 137, 1>>    \* b"!\x89\x01"
REF == <<63, 137, 1>>    \* b"?\x89\x01"
RES == <<64, 137, 1>>    \* b"@\x89\x01"
PACK == <<6, 137, 1>>    \* b"\x06\x89\x01"

Commands ==
       "power_on" :> OPR \o <<80, 87, 49, 10>>  \* 'PW1\n'
    @@ "power_off" :> OPR \o <<80, 87, 48, 10>>  \* 'PW0\n'
    @@ "memory1" :> OPR \o <<73, 78, 77, 76, 48, 10>>  \* 'INML0\n'
    @@ "memory2" :> OPR \o <<73, 78, 77, 76, 49, 10>>  \* 'INML1\n'
    @@ "memory3" :> OPR \o <<73, 78, 77, 76, 50, 10>>  \* 'INML2\n'
    @@ "memory4" :> OPR \o <<73, 78, 77, 76, 51, 10>>  \* 'INML3\n'
    @@ "memory5" :> OPR \o <<73, 78, 77, 76, 52, 10>>  \* 'INML4\n'
    @@ "hdmi1" :> OPR \o <<73, 80, 54, 10>>  \* 'IP6\n'
    @@ "hdmi2" :> OPR \o <<73, 80, 55, 10>>  \* 'IP7\n'
    @@ "pm_cinema" :> OPR \o <<80, 77, 80, 77, 48, 49, 10>>  \* 'PMPM01\n'
    @@ "pm_hdr" :> OPR \o <<80, 77, 80, 77, 48, 52, 10>>  \* 'PMPM04\n'
    @@ "pm_natural" :> OPR \o <<80, 77, 80, 77, 48, 51, 10>>  \* 'PMPM03\n'
    @@ "pm_film" :> OPR \o <<80, 77, 80, 77, 48, 48, 10>>  \* 'PMPM00\n'
    @@ "pm_THX" :> OPR \o <<80, 77, 80, 77, 48, 54, 10>>  \* 'PMPM06\n'
    @@ "pm_user1" :> OPR \o <<80, 77, 80, 77, 48, 67, 10>>  \* 'PMPM0C\n'
    @@ "pm_user2" :> OPR \o <<80, 77, 80, 77, 48, 68, 10>>  \* 'PMPM0D\n'
    @@ "pm_user3" :> OPR \o <<80, 77, 80, 77, 48, 69, 10>>  \* 'PMPM0E\n'
    @@ "pm_user4" :> OPR \o <<80, 77, 80, 77, 48, 70, 10>>  \* 'PMPM0F\n'
    @@ "pm_user5" :> OPR \o <<80, 77, 80, 77, 49, 48, 10>>  \* 'PMPM10\n'
    @@ "pm_user6" :> OPR \o <<80, 77, 80, 77, 49, 49, 10>>  \* 'PMPM11\n'
    @@ "pm_hlg" :> OPR \o <<80, 77, 80, 77, 49, 52, 10>>  \* 'PMPM14\n'
    @@ "pm_low_latency_enable" :> OPR \o <<80, 77, 76, 76, 49, 10>>  \* 'PMLL1\n'
    @@ "pm_low_latency_disable" :> OPR \o <<80, 77, 76, 76, 48, 10>>  \* 'PMLL0\n'
    @@ "mask_off" :> OPR \o <<73, 83, 77, 65, 50, 10>>  \* 'ISMA2\n'
    @@ "mask_custom1" :> OPR \o <<73, 83, 77, 65, 48, 10>>  \* 'ISMA0\n'
    @@ "mask_custom2" :> OPR \o <<73, 83, 77, 65, 49, 10>>  \* 'ISMA1\n'
    @@ "mask_custom3" :> OPR \o <<73, 83, 77, 65, 51, 10>>  \* 'ISMA3\n'
    @@ "lamp_high" :> OPR \o <<80, 77, 76, 80, 49, 10>>  \* 'PMLP1\n'
    @@ "lamp_low" :> OPR \o <<80, 77, 76, 80, 48, 10>>  \* 'PMLP0\n'
    @@ "menu" :> OPR \o <<82, 67, 55, 51, 50, 69, 10>>  \* 'RC732E\n'
    @@ "menu_down" :> OPR \o <<82, 67, 55, 51, 48, 50, 10>>  \* 'RC7302\n'
    @@ "menu_left" :> OPR \o <<82, 67, 55, 51, 51, 54, 10>>  \* 'RC7336\n'
    @@ "menu_right" :> OPR \o <<82, 67, 55, 51, 51, 52, 10>>  \* 'RC7334\n'
    @@ "menu_up" :> OPR \o <<82, 67, 55, 51, 48, 49, 10>>  \* 'RC7301\n'
    @@ "menu_ok" :> OPR \o <<82, 67, 55, 51, 50, 70, 10>>  \* 'RC732F\n'
    @@ "menu_back" :> OPR \o <<82, 67, 55, 51, 48, 51, 10>>  \* 'RC7303\n'
    @@ "aperture_off" :> OPR \o <<80, 77, 68, 73, 48, 10>>  \* 'PMDI0\n'
    @@ "aperture_auto1" :> OPR \o <<80, 77, 68, 73, 49, 10>>  \* 'PMDI1\n'
    @@ "aperture_auto2" :> OPR \o <<80, 77, 68, 73, 50, 10>>  \* 'PMDI2\n'
    @@ "anamorphic_off" :> OPR \o <<73, 78, 86, 83, 48, 10>>  \* 'INVS0\n'
    @@ "anamorphic_a" :> OPR \o <<73, 78, 86, 83, 49, 10>>  \* 'INVS1\n'
    @@ "anamorphic_b" :> OPR \o <<73, 78, 86, 83, 50, 10>>  \* 'INVS2\n'
    @@ "anamorphic_c" :> OPR \o <<73, 78, 86, 83, 51, 10>>  \* 'INVS3\n'
    @@ "get_mac" :> REF \o <<76, 83, 77, 65, 10>>  \* 'LSMA\n'
    @@ "model" :> REF \o <<77, 68, 10>>  \* 'MD\n'
    @@ "power_status" :> REF \o <<80, 87, 10>>  \* 'PW\n'
    @@ "current_input" :> REF \o <<73, 80, 10>>  \* 'IP\n'
    @@ "signal_active" :> REF \o <<83, 67, 10>>  \* 'SC\n'

Responses ==
       "standby" :> RES \o <<80, 87, 48, 10>>  \* 'PW0\n'
    @@ "cooling" :> RES \o <<80, 87, 50, 10>>  \* 'PW2\n'
    @@ "emergency" :> RES \o <<80, 87, 52, 10>>  \* 'PW4\n'
    @@ "lamp_on" :> RES \o <<80, 87, 49, 10>>  \* 'PW1\n'
    @@ "reserved" :> RES \o <<80, 87, 51, 10>>  \* 'PW3\n'
    @@ "hdmi1" :> RES \o <<73, 80, 54, 10>>  \* 'IP6\n'
    @@ "hdmi2" :> RES \o <<73, 80, 55, 10>>  \* 'IP7\n'
    @@ "no_signal" :> RES \o <<83, 67, 48, 10>>  \* 'SC0\n'
    @@ "active_signal" :> RES \o <<83, 67, 49, 10>>  \* 'SC1\n'

\* The names jvccommands.py binds at module level: what
\* "from .jvccommands import ..." can resolve.
JvcCommandsNamespace ==
       "Commands" :> Commands
    @@ "Responses" :> Responses

\* hasattr(Commands, name): the members, and the attributes every Enum class has.
EnumClassAttributes ==
    {"__members__", "__doc__", "__module__", "__name__", "__class__", "mro"}

hasattr_Commands(name) == name \in DOMAIN Commands \cup EnumClassAttributes

\* Enum lookup by value, E(value): the member with that value, if any.
EnumByValue(enum, value) == {n \in DOMAIN enum : enum[n] = value}

(***************************************************************************)
(* Python bytes operations                                                 *)
(***************************************************************************)
Min(a, b) == IF a < b THEN a ELSE b

\* s[a:b] for 0 <= a, 0 <= b
Slice(s, a, b) == SubSeq(s, a + 1, Min(b, Len(s)))

\* s[5:], the last byte kept.
StripHeaderOnly(s) == SubSeq(s, 6, Len(s))

\* s[5:-1]
StripHeaderAndEnd(s) == SubSeq(s, 6, Len(s) - 1)

\* bytes.decode("ascii") succeeds iff every byte is below 128
IsAscii(s) == \A i \in 1..Len(s) : s[i] < 128

\* What reader.read(n) may return when the peer has sent `sent` and then
\* nothing more: any non-empty prefix of at most n bytes (TCP may deliver
\* the bytes in pieces), or b"" when nothing was sent before EOF.
Read(n, sent) ==
    IF Len(sent) = 0 THEN {<< >>}
    ELSE {Slice(sent, 0, k) : k \in 1..Min(n, Len(sent))}

(***************************************************************************)
(* The device and the application: the inputs of the model                 *)
(***************************************************************************)
\* What the device may send as its greeting: PJ_OK, XX_OK, nothing.
DeviceGreetings == {<<80, 74, 95, 79, 75>>, <<88, 88, 95, 79, 75>>, << >>}

\* What the device may send after PJREQ: PJACK, PJNAK, nothing.
DeviceAcks == {<<80, 74, 65, 67, 75>>, <<80, 74, 78, 65, 75>>, << >>}

\* What the device may send after a command: \x06\x89\x01 + two bytes + \n
\* for PW, LS, MD and XX, the five bytes \x06\x89\x01P\n, a frame with the
\* wrong preamble, nothing.
DeviceCommandAcks ==
    {<<6, 137, 1>> \o m \o <<10>> :
        m \in {<<80, 87>>, <<76, 83>>, <<77, 68>>, <<88, 88>>, <<80>>}}
    \cup {<<21, 137, 1, 80, 87, 10>>, << >>}

\* What the device may send as a response: @\x89\x01 + PW0, PW1, PW3, PW9,
\* IP6, MDA + \n, a frame with a byte above 127, nothing.
DeviceResponses ==
    {<<64, 137, 1>> \o m \o <<10>> :
        m \in {<<80, 87, 48>>, <<80, 87, 49>>, <<80, 87, 51>>, <<80, 87, 57>>,
               <<73, 80, 54>>, <<77, 68, 65>>, <<76, 83, 200>>}}
    \cup {<< >>}

\* The payloads the application passes to _async_send_command itself:
\* power_on, power_status, and the uncatalogued four bytes ?\x89\x01P.
RawPayloads == {Commands["power_on"], Commands["power_status"], <<63, 137, 1, 80>>}

\* The names the application passes to async_command.
NameInputs == {"power_on", "get_mac", "bogus", "__members__"}

\* What awaiting open_connection under wait_for may end in.
ConnectOutcomes == {"connected", "ConnectionRefusedError", "TimeoutError", "OSError"}

\* The coroutines an application may run against one client.
Tasks == {"t1", "t2"}

(***************************************************************************)
(* State                                                                   *)
(***************************************************************************)
VARIABLES
    now,      \* datetime.now(), in ticks
    delay,    \* self._delay_seconds, in ticks
    last,     \* self._last_command_time
    calls,    \* the number of calls made on the client so far
    callers,  \* the coroutines the application runs
    co        \* per coroutine: its position, locals, transport and outcome

vars == <<now, delay, last, calls, callers, co>>

NoValue == [kind |-> "none", bytes |-> << >>, flag |-> FALSE, text |-> ""]

\* A coroutine before its first suspension point.
\*   pc          where the coroutine is suspended ("idle": not called, "done":
\*               control is back with the caller)
\*   api, arg    the public method called and, for async_command, its argument
\*   operation   the argument of _async_send_command
\*   tsRead, delta, sleepReq, suspended   what _throttle did: whether it read
\*               _last_command_time, its local delta, the argument of
\*               asyncio.sleep, whether it awaited the sleep
\*   calledAt, lastAtCall   the clock and _last_command_time when called
\*   entered     whether _async_send_command was entered
\*   connects    the number of times open_connection was awaited
\*   connectResult   what the await of open_connection ended in
\*   opened, open, connAt   the transport: whether open_connection returned
\*               one, whether it is open now, when it was opened
\*   log         the reads and writes on the transport, in order
\*   returned, result   whether _async_send_command returned, and its result
\*   outcome     "return" or the class of the exception raised to the caller
\*   ret         the value returned
Fresh(api, arg) ==
    [pc |-> "idle", api |-> api, arg |-> arg, operation |-> << >>,
     tsRead |-> FALSE, delta |-> 0, sleepReq |-> 0, suspended |-> FALSE,
     calledAt |-> now, lastAtCall |-> last,
     entered |-> FALSE, connects |-> 0, connectResult |-> "none",
     opened |-> FALSE, open |-> FALSE, connAt |-> 0,
     log |-> << >>, returned |-> FALSE, result |-> << >>,
     outcome |-> "none", ret |-> NoValue]

ReadEvent(n, data) == [op |-> "read", n |-> n, data |-> data]
WriteEvent(data) == [op |-> "write", n |-> Len(data), data |-> data]
CloseEvent == [op |-> "close", n |-> 0, data |-> << >>]
ReadRaisedEvent(n) == [op |-> "read_raised", n |-> n, data |-> << >>]

\* InitWith with the timestamp set a full delay back, as if an exchange
\* had completed long before construction.
InitWithOldStamp(cs) ==
    /\ now = 0
    /\ delay \in 0..MaxDelay
    /\ last = 0 - MaxDelay
    /\ calls = 0
    /\ callers = cs
    /\ co = [t \in Tasks |-> Fresh("", "")]

InitWith(cs) ==
    /\ now = 0
    /\ delay \in 0..MaxDelay
    /\ last = 0
    /\ calls = 0
    /\ callers = cs
    /\ co = [t \in Tasks |-> Fresh("", "")]

\* JVCProjectorClient.__init__, and one coroutine using the client.
Init == InitWith({"t1"})

(***************************************************************************)
(* JVCProjectorClient._throttle                                            *)
(***************************************************************************)
\* _throttle sleeping the whole delay, the elapsed time not subtracted.
throttle_full_delay ==
    IF delay = 0
    THEN [tsRead |-> FALSE, delta |-> 0, sleepReq |-> 0, suspended |-> FALSE]
    ELSE LET delta == now - last
         IN  IF delay > delta
             THEN [tsRead |-> TRUE, delta |-> delta,
                   sleepReq |-> delay, suspended |-> TRUE]
             ELSE [tsRead |-> TRUE, delta |-> delta,
                   sleepReq |-> 0, suspended |-> FALSE]

\* _throttle without its early return on a zero delay.
throttle_no_zero_return ==
    LET delta == now - last
    IN  IF delay > delta
        THEN [tsRead |-> TRUE, delta |-> delta,
              sleepReq |-> delay - delta, suspended |-> TRUE]
        ELSE [tsRead |-> TRUE, delta |-> delta,
              sleepReq |-> 0, suspended |-> FALSE]

\* What _throttle does when called now: with a zero delay it returns at
\* once; otherwise it reads _last_command_time and sleeps for the rest of
\* the delay, if any is left.
_throttle ==
    IF delay = 0
    THEN [tsRead |-> FALSE, delta |-> 0, sleepReq |-> 0, suspended |-> FALSE]
    ELSE LET delta == now - last
         IN  IF delay > delta
             THEN [tsRead |-> TRUE, delta |-> delta,
                   sleepReq |-> delay - delta, suspended |-> TRUE]
             ELSE [tsRead |-> TRUE, delta |-> delta,
                   sleepReq |-> 0, suspended |-> FALSE]

(***************************************************************************)
(* JVCProjectorClient._async_send_command                                  *)
(***************************************************************************)
JVC_GREETING == <<80, 74, 95, 79, 75>>    \* b'PJ_OK'
JVC_REQ == <<80, 74, 82, 69, 81>>         \* b'PJREQ'
JVC_ACK == <<80, 74, 65, 67, 75>>         \* b'PJACK'
ResponseReadSize == 1024

\* The acknowledgement with operation[3:4], one mnemonic byte, echoed.
ExpectedAckOneByte(operation) == <<6, 137, 1>> \o Slice(operation, 3, 4) \o <<10>>

\* ack = b"\x06\x89\x01" + operation[3:5] + b"\x0A"
ExpectedAck(operation) == <<6, 137, 1>> \o Slice(operation, 3, 5) \o <<10>>

\* wait_for_response taken from the header's second byte, which operations
\* and reference queries share.
wait_for_response_byte1(operation) == Slice(operation, 1, 2) = <<137>>

\* wait_for_response = True if operation[0:1] == b'?' else False
wait_for_response(operation) == Slice(operation, 0, 1) = <<63>>

\* CanCall with the client locked while an exchange is in flight.
CanCallSerialized(t) ==
    /\ t \in callers
    /\ \A u \in Tasks : co[u].pc \in {"idle", "done"}
    /\ calls < MaxCalls

\* A call may start when the coroutine is not inside one.
CanCall(t) ==
    /\ t \in callers
    /\ co[t].pc \in {"idle", "done"}
    /\ calls < MaxCalls

\* Enter with the connection opened before _throttle is awaited.
EnterConnectFirst(t, api, arg, operation) ==
    LET th == _throttle
    IN  /\ now + th.sleepReq <= MaxTime
        /\ co' = [co EXCEPT ![t] =
                    [Fresh(api, arg) EXCEPT
                        !.pc = IF th.suspended THEN "sleeping" ELSE "connecting",
                        !.operation = operation, !.entered = TRUE,
                        !.opened = TRUE, !.open = TRUE, !.connAt = now,
                        !.tsRead = th.tsRead, !.delta = th.delta,
                        !.sleepReq = th.sleepReq, !.suspended = th.suspended]]
        /\ calls' = calls + 1
        /\ UNCHANGED <<now, delay, last, callers>>

\* The call of _async_send_command(operation) up to its first suspension:
\* _throttle, then the await of the sleep or of open_connection.
Enter(t, api, arg, operation) ==
    LET th == _throttle
    IN  /\ now + th.sleepReq <= MaxTime    \* the clock's range covers the sleep
        /\ co' = [co EXCEPT ![t] =
                    [Fresh(api, arg) EXCEPT
                        !.pc = IF th.suspended THEN "sleeping" ELSE "connecting",
                        !.operation = operation, !.entered = TRUE,
                        !.tsRead = th.tsRead, !.delta = th.delta,
                        !.sleepReq = th.sleepReq, !.suspended = th.suspended]]
        /\ calls' = calls + 1
        /\ UNCHANGED <<now, delay, last, callers>>

\* Raise with the timestamp taken on the way out.
RaiseStamping(t, exc, events) ==
    /\ co' = [co EXCEPT ![t].pc = "done", ![t].outcome = exc,
                        ![t].log = co[t].log \o events]
    /\ last' = now
    /\ UNCHANGED <<now, delay, calls, callers>>

\* An exception leaves the coroutine: nothing else is done on the way out.
Raise(t, exc, events) ==
    /\ co' = [co EXCEPT ![t].pc = "done", ![t].outcome = exc,
                        ![t].log = co[t].log \o events]
    /\ UNCHANGED <<now, delay, last, calls, callers>>

\* asyncio.sleep returns once the requested time has passed.
Wake(t) ==
    /\ co[t].pc = "sleeping"
    /\ now >= co[t].calledAt + co[t].sleepReq
    /\ co' = [co EXCEPT ![t].pc = "connecting"]
    /\ UNCHANGED <<now, delay, last, calls, callers>>

\* await asyncio.wait_for(asyncio.open_connection(...), timeout=...), with
\* its except clause: only ConnectionRefusedError becomes
\* JVCCannotConnectError.
OpenConnection(t) ==
    /\ co[t].pc = "connecting"
    /\ \E r \in ConnectOutcomes :
        IF r = "connected"
        THEN /\ co' = [co EXCEPT ![t].pc = "greeting", ![t].connectResult = r,
                                 ![t].connects = co[t].connects + 1,
                                 ![t].opened = TRUE,
                                 ![t].open = TRUE, ![t].connAt = now]
             /\ UNCHANGED <<now, delay, last, calls, callers>>
        ELSE /\ co' = [co EXCEPT ![t].pc = "done", ![t].connectResult = r,
                                 ![t].connects = co[t].connects + 1,
                                 ![t].outcome = IF r = "ConnectionRefusedError"
                                                THEN "JVCCannotConnectError" ELSE r]
             /\ UNCHANGED <<now, delay, last, calls, callers>>

(***************************************************************************)
(* The public coroutines: what each does with the bytes                    *)
(* _async_send_command returned                                            *)
(***************************************************************************)
Returns(v) == [outcome |-> "return", ret |-> v]
Raises(exc) == [outcome |-> exc, ret |-> NoValue]

BytesValue(b) == [kind |-> "bytes", bytes |-> b, flag |-> FALSE, text |-> ""]
StrValue(b) == [kind |-> "str", bytes |-> b, flag |-> FALSE, text |-> ""]
NameValue(n) == [kind |-> "str", bytes |-> << >>, flag |-> FALSE, text |-> n]
BoolValue(f) == [kind |-> "bool", bytes |-> << >>, flag |-> f, text |-> ""]
NoneValue == [kind |-> "None", bytes |-> << >>, flag |-> FALSE, text |-> ""]

\* mac[5:-1].decode("ascii") if mac else raise JVCCommunicationError
async_get_mac_result(mac) ==
    IF mac # << >>
    THEN IF IsAscii(StripHeaderAndEnd(mac))
         THEN Returns(StrValue(StripHeaderAndEnd(mac)))
         ELSE Raises("UnicodeDecodeError")
    ELSE Raises("JVCCommunicationError")

\* model[5:-1].decode("ascii") if model else raise JVCCommunicationError
async_get_model_result(model) ==
    IF model # << >>
    THEN IF IsAscii(StripHeaderAndEnd(model))
         THEN Returns(StrValue(StripHeaderAndEnd(model)))
         ELSE Raises("UnicodeDecodeError")
    ELSE Raises("JVCCommunicationError")

\* PowerStates(message).name.  PowerStates is bound by the import of line
\* 19; jvccommands.py binds no such name (its enum of responses is called
\* Responses), so the import raises ImportError and line 210 never yields
\* a name.
async_power_state_result(message) ==
    IF "PowerStates" \notin DOMAIN JvcCommandsNamespace
    THEN Raises("ImportError")
    ELSE LET found == EnumByValue(JvcCommandsNamespace["PowerStates"], message)
         IN  IF found = {}
             THEN Raises("ValueError")
             ELSE Returns(NameValue(CHOOSE n \in found : TRUE))

\* await self.async_power_state() in ["lamp_on", "reserved"]
async_is_on_result(message) ==
    LET state == async_power_state_result(message)
    IN  IF state.outcome = "return"
        THEN Returns(BoolValue(state.ret.text \in {"lamp_on", "reserved"}))
        ELSE state

\* What the public coroutine `api` returns or raises once
\* _async_send_command has returned `result`.
Outcome(api, result) ==
    CASE api = "_async_send_command" -> Returns(BytesValue(result))
      [] api = "async_power_on" -> Returns(NoneValue)
      [] api = "async_power_off" -> Returns(NoneValue)
      [] api = "async_command" -> Returns(BoolValue(TRUE))
      [] api = "async_get_mac" -> async_get_mac_result(result)
      [] api = "async_get_model" -> async_get_model_result(result)
      [] api = "async_power_state" -> async_power_state_result(result)
      [] api = "async_is_on" -> async_is_on_result(result)

(***************************************************************************)
(* _async_send_command, from the handshake on                              *)
(***************************************************************************)
\* The successful end of _async_send_command: writer.close(), the
\* timestamp, return result; then the rest of the public coroutine.
Finish(t, events, result) ==
    LET out == Outcome(co[t].api, result)
    IN  /\ co' = [co EXCEPT ![t].pc = "done", ![t].open = FALSE,
                            ![t].log = co[t].log \o events \o <<CloseEvent>>,
                            ![t].returned = TRUE, ![t].result = result,
                            ![t].outcome = out.outcome, ![t].ret = out.ret]
        /\ last' = now
        /\ UNCHANGED <<now, delay, calls, callers>>

\* ReadGreeting reading once more after a first greeting that differs.
ReadGreetingRetry(t) ==
    /\ co[t].pc = "greeting"
    /\ \E sent \in DeviceGreetings : \E data \in Read(Len(JVC_GREETING), sent) :
        IF data # JVC_GREETING
        THEN IF co[t].log = << >>
             THEN /\ co' = [co EXCEPT ![t].log = <<ReadEvent(Len(JVC_GREETING), data)>>]
                  /\ UNCHANGED <<now, delay, last, calls, callers>>
             ELSE Raise(t, "JVCHandshakeError", <<ReadEvent(Len(JVC_GREETING), data)>>)
        ELSE /\ co' = [co EXCEPT ![t].pc = "ack",
                          ![t].log = co[t].log \o <<ReadEvent(Len(JVC_GREETING), data),
                                                    WriteEvent(JVC_REQ)>>]
             /\ UNCHANGED <<now, delay, last, calls, callers>>

\* ReadGreeting with PJREQ written before the greeting is compared.
ReadGreetingWriteFirst(t) ==
    /\ co[t].pc = "greeting"
    /\ \E sent \in DeviceGreetings : \E data \in Read(Len(JVC_GREETING), sent) :
        IF data # JVC_GREETING
        THEN Raise(t, "JVCHandshakeError", <<ReadEvent(Len(JVC_GREETING), data),
                                             WriteEvent(JVC_REQ)>>)
        ELSE /\ co' = [co EXCEPT ![t].pc = "ack",
                          ![t].log = co[t].log \o <<ReadEvent(Len(JVC_GREETING), data),
                                                    WriteEvent(JVC_REQ)>>]
             /\ UNCHANGED <<now, delay, last, calls, callers>>

\* ReadGreeting with the handshake cut short once an exchange has
\* completed on the client: the command follows PJREQ at once.
ReadGreetingCached(t) ==
    /\ co[t].pc = "greeting"
    /\ \E sent \in DeviceGreetings : \E data \in Read(Len(JVC_GREETING), sent) :
        IF data # JVC_GREETING
        THEN Raise(t, "JVCHandshakeError", <<ReadEvent(Len(JVC_GREETING), data)>>)
        ELSE /\ co' = [co EXCEPT
                          ![t].pc = IF last > 0 THEN "cmdack" ELSE "ack",
                          ![t].log = co[t].log
                                     \o <<ReadEvent(Len(JVC_GREETING), data),
                                          WriteEvent(JVC_REQ)>>
                                     \o IF last > 0
                                        THEN <<WriteEvent(co[t].operation)>>
                                        ELSE << >>]
             /\ UNCHANGED <<now, delay, last, calls, callers>>

\* if await reader.read(len(JVC_GREETING)) != JVC_GREETING: raise ...
\* writer.write(JVC_REQ)
ReadGreeting(t) ==
    /\ co[t].pc = "greeting"
    /\ \E sent \in DeviceGreetings : \E data \in Read(Len(JVC_GREETING), sent) :
        IF data # JVC_GREETING
        THEN Raise(t, "JVCHandshakeError", <<ReadEvent(Len(JVC_GREETING), data)>>)
        ELSE /\ co' = [co EXCEPT ![t].pc = "ack",
                          ![t].log = co[t].log \o <<ReadEvent(Len(JVC_GREETING), data),
                                                    WriteEvent(JVC_REQ)>>]
             /\ UNCHANGED <<now, delay, last, calls, callers>>

\* ReadAck with the acknowledgement compared by length only.
ReadAckByLength(t) ==
    /\ co[t].pc = "ack"
    /\ \E sent \in DeviceAcks : \E data \in Read(Len(JVC_ACK), sent) :
        IF Len(data) # Len(JVC_ACK)
        THEN Raise(t, "JVCHandshakeError", <<ReadEvent(Len(JVC_ACK), data)>>)
        ELSE /\ co' = [co EXCEPT ![t].pc = "cmdack",
                          ![t].log = co[t].log \o <<ReadEvent(Len(JVC_ACK), data),
                                                    WriteEvent(co[t].operation)>>]
             /\ UNCHANGED <<now, delay, last, calls, callers>>

\* if await reader.read(len(JVC_ACK)) != JVC_ACK: raise ...
\* writer.write(operation)
ReadAck(t) ==
    /\ co[t].pc = "ack"
    /\ \E sent \in DeviceAcks : \E data \in Read(Len(JVC_ACK), sent) :
        IF data # JVC_ACK
        THEN Raise(t, "JVCHandshakeError", <<ReadEvent(Len(JVC_ACK), data)>>)
        ELSE /\ co' = [co EXCEPT ![t].pc = "cmdack",
                          ![t].log = co[t].log \o <<ReadEvent(Len(JVC_ACK), data),
                                                    WriteEvent(co[t].operation)>>]
             /\ UNCHANGED <<now, delay, last, calls, callers>>

\* ACK = await reader.read(len(ack)), and the branches on ACK == ack and
\* wait_for_response.
ReadCommandAck(t) ==
    /\ co[t].pc = "cmdack"
    /\ LET ack == ExpectedAck(co[t].operation)
       IN  \E sent \in DeviceCommandAcks : \E ACK \in Read(Len(ack), sent) :
            IF ACK = ack
            THEN IF wait_for_response(co[t].operation)
                 THEN /\ co' = [co EXCEPT ![t].pc = "response",
                                   ![t].log = co[t].log \o <<ReadEvent(Len(ack), ACK)>>]
                      /\ UNCHANGED <<now, delay, last, calls, callers>>
                 ELSE Finish(t, <<ReadEvent(Len(ack), ACK)>>, << >>)
            ELSE Raise(t, "JVCCommunicationError", <<ReadEvent(Len(ack), ACK)>>)

\* message = await reader.read(1024); result = message
ReadResponse(t) ==
    /\ co[t].pc = "response"
    /\ \E sent \in DeviceResponses : \E message \in Read(ResponseReadSize, sent) :
        Finish(t, <<ReadEvent(ResponseReadSize, message)>>, message)

\* The number of bytes the read the coroutine is suspended in asks for.
PendingReadSize(c) ==
    CASE c.pc = "greeting" -> Len(JVC_GREETING)
      [] c.pc = "ack" -> Len(JVC_ACK)
      [] c.pc = "cmdack" -> Len(ExpectedAck(c.operation))
      [] c.pc = "response" -> ResponseReadSize

\* reader.read raises (the peer reset the connection).
ReadRaises(t) ==
    /\ co[t].pc \in {"greeting", "ack", "cmdack", "response"}
    /\ Raise(t, "ConnectionResetError", <<ReadRaisedEvent(PendingReadSize(co[t]))>>)

(***************************************************************************)
(* The calls of the public coroutines                                      *)
(***************************************************************************)
\* A call that ends before any suspension point, _async_send_command not
\* entered.
Immediate(t, api, arg, out) ==
    /\ co' = [co EXCEPT ![t] = [Fresh(api, arg) EXCEPT !.pc = "done",
                                   !.outcome = out.outcome, !.ret = out.ret]]
    /\ calls' = calls + 1
    /\ UNCHANGED <<now, delay, last, callers>>

\* The application calls _async_send_command itself.
async_send_command(t) ==
    /\ CanCall(t)
    /\ \E operation \in RawPayloads : Enter(t, "_async_send_command", "", operation)

async_power_on(t) ==
    /\ CanCall(t)
    /\ Enter(t, "async_power_on", "", Commands["power_on"])

async_power_off(t) ==
    /\ CanCall(t)
    /\ Enter(t, "async_power_off", "", Commands["power_off"])

\* if not hasattr(Commands, command_string): return False
\* else: await self._async_send_command(Commands[command_string].value)
\* Commands[name] raises KeyError for a name that is no member.
async_command(t) ==
    /\ CanCall(t)
    /\ \E command_string \in NameInputs :
        IF ~hasattr_Commands(command_string)
        THEN Immediate(t, "async_command", command_string, Returns(BoolValue(FALSE)))
        ELSE IF command_string \notin DOMAIN Commands
             THEN Immediate(t, "async_command", command_string, Raises("KeyError"))
             ELSE Enter(t, "async_command", command_string, Commands[command_string])

async_get_mac(t) ==
    /\ CanCall(t)
    /\ Enter(t, "async_get_mac", "", Commands["get_mac"])

async_get_model(t) ==
    /\ CanCall(t)
    /\ Enter(t, "async_get_model", "", Commands["model"])

async_power_state(t) ==
    /\ CanCall(t)
    /\ Enter(t, "async_power_state", "", Commands["power_status"])

async_is_on(t) ==
    /\ CanCall(t)
    /\ Enter(t, "async_is_on", "", Commands["power_status"])

\* async_command called with any name of the catalog: the else branch of
\* line 165.
async_command_catalog(t) ==
    /\ CanCall(t)
    /\ \E command_string \in DOMAIN Commands :
        Enter(t, "async_command", command_string, Commands[command_string])

\* Time passes.
Tick ==
    /\ now < MaxTime
    /\ now' = now + 1
    /\ UNCHANGED <<delay, last, calls, callers, co>>

Next ==
    \/ Tick
    \/ \E t \in Tasks :
        \/ async_send_command(t)
        \/ async_power_on(t)
        \/ async_power_off(t)
        \/ async_command(t)
        \/ async_get_mac(t)
        \/ async_get_model(t)
        \/ async_power_state(t)
        \/ async_is_on(t)
        \/ Wake(t)
        \/ OpenConnection(t)
        \/ ReadGreeting(t)
        \/ ReadAck(t)
        \/ ReadCommandAck(t)
        \/ ReadResponse(t)
        \/ ReadRaises(t)

Spec == Init /\ [][Next]_vars

(***************************************************************************)
(* Properties                                                              *)
(***************************************************************************)
PJ_OK == <<80, 74, 95, 79, 75>>
PJREQ == <<80, 74, 82, 69, 81>>
PJACK == <<80, 74, 65, 67, 75>>

\* The reads that returned bytes, and the writes, on a coroutine's transport.
DataReads(c) == SelectSeq(c.log, LAMBDA e : e.op = "read")
Writes(c) == SelectSeq(c.log, LAMBDA e : e.op = "write")

\* C1: the handshake succeeds (the command payload is written) iff the
\* first read, of up to 5 bytes, equals PJ_OK and the second, of up to 5
\* bytes, equals PJACK; any other bytes in either read, truncated or empty
\* reads included, end the exchange with JVCHandshakeError and the command
\* payload is never written.
C1_HandshakeIff ==
    \A t \in Tasks :
        LET c == co[t]
            r == DataReads(c)
            w == Writes(c)
            badGreeting == Len(r) >= 1 /\ r[1].data # PJ_OK
            badAck == Len(r) >= 2 /\ r[1].data = PJ_OK /\ r[2].data # PJACK
        IN  /\ Len(w) >= 2 <=> (Len(r) >= 2 /\ r[1].data = PJ_OK /\ r[2].data = PJACK)
            /\ \A i \in 1..Min(2, Len(r)) : r[i].n = 5
            /\ badGreeting => c.pc = "done" /\ Len(r) = 1 /\ Len(w) = 0
            /\ badAck => c.pc = "done" /\ Len(r) = 2 /\ w = <<WriteEvent(PJREQ)>>
            /\ c.outcome = "JVCHandshakeError" <=> (badGreeting \/ badAck)

\* C1 witness: an exchange ended in JVCHandshakeError on a truncated PJACK.
C1_Witness ==
    \E t \in Tasks :
        /\ co[t].pc = "done"
        /\ co[t].outcome = "JVCHandshakeError"
        /\ Len(DataReads(co[t])) = 2
        /\ DataReads(co[t])[2].data = <<80, 74, 65>>

\* C2: once _async_send_command has opened a transport, the transport is
\* closed whenever control is back with the caller, however the call ended.
C2_ClosedOnEveryExit ==
    \A t \in Tasks : (co[t].pc = "done" /\ co[t].opened) => ~co[t].open

\* C3: after a successful handshake, if the bytes read for the
\* acknowledgement equal the expected acknowledgement, an operation
\* (first byte '!') returns b'' without a further read and a reference
\* query (first byte '?') returns exactly the bytes of one further read of
\* up to 1024 bytes; if they differ, the exchange ends with
\* JVCCommunicationError and no further read is attempted.
C3_AckDecidesResult ==
    \A t \in Tasks :
        LET c == co[t]
            r == DataReads(c)
            op == c.operation
        IN  Len(r) >= 3 =>
              /\ r[3].n = Len(ExpectedAck(op))
              /\ IF r[3].data = ExpectedAck(op)
                 THEN /\ (Len(op) >= 1 /\ op[1] = 33) =>
                            /\ c.pc = "done" /\ c.returned
                            /\ c.result = << >>
                            /\ Len(c.log) = 6 /\ c.log[6] = CloseEvent
                      /\ (Len(op) >= 1 /\ op[1] = 63) =>
                            \/ c.pc = "response" /\ Len(c.log) = 5
                            \/ /\ c.pc = "done" /\ c.returned
                               /\ Len(r) = 4 /\ r[4].n = 1024
                               /\ c.result = r[4].data
                            \/ /\ c.pc = "done" /\ c.outcome = "ConnectionResetError"
                               /\ Len(r) = 3
                 ELSE /\ c.pc = "done"
                      /\ c.outcome = "JVCCommunicationError"
                      /\ Len(c.log) = 5

\* C3 witness: a reference query returned the four bytes a partial read of
\* the response delivered.
C3_Witness ==
    \E t \in Tasks :
        /\ co[t].api = "_async_send_command"
        /\ co[t].pc = "done"
        /\ co[t].returned
        /\ co[t].operation[1] = 63
        /\ co[t].ret = BytesValue(<<64, 137, 1, 80>>)

\* C4: when the connection cannot be established, refused or timed out,
\* _async_send_command fails with JVCCannotConnectError and neither reads
\* nor writes.
C4_ConnectFailureIsCannotConnect ==
    \A t \in Tasks :
        co[t].connectResult \in {"ConnectionRefusedError", "TimeoutError"} =>
            /\ co[t].pc = "done"
            /\ co[t].outcome = "JVCCannotConnectError"
            /\ co[t].log = << >>

\* C5: with a delay d > 0 and one sequential caller, an exchange started
\* at elapsed time e since _last_command_time is suspended by _throttle
\* for exactly d - e if e < d and not at all if e >= d; so its connection
\* is never opened earlier than d after that timestamp.
C5_ThrottleWaitsRemainder ==
    \A t \in Tasks :
        LET c == co[t]
            e == c.calledAt - c.lastAtCall
        IN  (delay > 0 /\ c.entered) =>
              /\ c.suspended <=> e < delay
              /\ c.suspended => c.sleepReq = delay - e
              /\ ~c.suspended => c.sleepReq = 0
              /\ c.pc = "sleeping" => c.suspended
              /\ c.connectResult # "none" => now >= c.lastAtCall + delay
              /\ c.opened => c.connAt >= c.lastAtCall + delay

\* C5 witness: the second exchange, started one tick after the first one
\* completed and with a delay of two ticks, slept one tick and connected.
C5_Witness ==
    \E t \in Tasks :
        /\ delay = 2
        /\ calls = 2
        /\ co[t].lastAtCall > 0
        /\ co[t].calledAt - co[t].lastAtCall = 1
        /\ co[t].sleepReq = 1
        /\ co[t].opened

\* C6: with a zero delay _throttle never suspends the caller and never
\* reads _last_command_time, whatever the exchanges and their timing.
C6_ZeroDelayNoThrottle ==
    delay = 0 =>
        \A t \in Tasks :
            /\ ~co[t].tsRead
            /\ ~co[t].suspended
            /\ co[t].sleepReq = 0
            /\ co[t].pc # "sleeping"

\* C6 witness: with a zero delay, a second exchange connected in the very
\* tick in which the first one completed.
C6_Witness ==
    \E t \in Tasks :
        /\ delay = 0
        /\ calls = 2
        /\ last > 0
        /\ co[t].entered
        /\ co[t].calledAt = co[t].lastAtCall
        /\ co[t].opened

\* C7: on every connection, a write of the command payload is preceded by
\* a read equal to PJ_OK, a write of PJREQ and a read equal to PJACK, in
\* that order, also when an earlier exchange on the client succeeded.
C7_HandshakeBeforeEveryCommand ==
    \A t \in Tasks :
        LET c == co[t]
        IN  \A i \in 1..Len(c.log) :
                c.log[i].op = "write" =>
                    \/ /\ i = 2
                       /\ c.log[1] = ReadEvent(5, PJ_OK)
                       /\ c.log[2] = WriteEvent(PJREQ)
                    \/ /\ i = 4
                       /\ SubSeq(c.log, 1, 3) = <<ReadEvent(5, PJ_OK), WriteEvent(PJREQ),
                                                  ReadEvent(5, PJACK)>>
                       /\ c.log[4] = WriteEvent(c.operation)

\* C7 witness: the command of a second exchange is written, after an
\* exchange that completed successfully.
C7_Witness ==
    \E t \in Tasks :
        /\ calls = 2
        /\ co[t].lastAtCall > 0
        /\ Len(Writes(co[t])) = 2
        /\ co[t].pc = "cmdack"

\* C8: when the greeting read differs from PJ_OK, the exchange fails with
\* JVCHandshakeError, nothing was written to the transport and no read
\* follows the greeting read.
C8_BadGreetingWritesNothing ==
    \A t \in Tasks :
        LET c == co[t]
            r == DataReads(c)
        IN  (Len(r) >= 1 /\ r[1].data # PJ_OK) =>
              /\ c.pc = "done"
              /\ c.outcome = "JVCHandshakeError"
              /\ Writes(c) = << >>
              /\ c.log = <<r[1]>>
              /\ ~c.returned

\* C8 witness: the device greeted with XX_OK and the call has ended.
C8_Witness ==
    \E t \in Tasks :
        /\ co[t].pc = "done"
        /\ co[t].log = <<ReadEvent(5, <<88, 88, 95, 79, 75>>)>>

\* C9: async_command(name) returns False for a name that is no catalog
\* command, without an error, without entering _async_send_command and
\* without changing _last_command_time; for a catalog name it sends that
\* command's payload through _async_send_command and returns True.
C9_UnknownNameReturnsFalse ==
    \A t \in Tasks :
        LET c == co[t]
        IN  c.api = "async_command" =>
              IF c.arg \notin DOMAIN Commands
              THEN /\ c.pc = "done"
                   /\ c.outcome = "return"
                   /\ c.ret = BoolValue(FALSE)
                   /\ ~c.entered
                   /\ c.log = << >>
              ELSE /\ c.entered
                   /\ c.operation = Commands[c.arg]
                   /\ c.returned => c.outcome = "return" /\ c.ret = BoolValue(TRUE)

\* C10: async_power_state decodes the response to its power-status query
\* through the status catalog: @\x89\x01PW1\n gives lamp_on, @\x89\x01PW0\n
\* gives standby, and a response with no exact match in the catalog, the
\* empty one included, gives an unrecognized-response error (ValueError).
C10_PowerStateDecodes ==
    \A t \in Tasks :
        LET c == co[t]
        IN  (c.api = "async_power_state" /\ c.returned) =>
              /\ c.operation = <<63, 137, 1, 80, 87, 10>>
              /\ c.result = <<64, 137, 1, 80, 87, 49, 10>> =>
                    c.outcome = "return" /\ c.ret = NameValue("lamp_on")
              /\ c.result = <<64, 137, 1, 80, 87, 48, 10>> =>
                    c.outcome = "return" /\ c.ret = NameValue("standby")
              /\ EnumByValue(Responses, c.result) = {} => c.outcome = "ValueError"

\* C11: async_is_on returns True exactly when the power state decoded from
\* the response is lamp_on or reserved, and False when it is standby,
\* cooling or emergency.
C11_IsOnIffLampOnOrReserved ==
    \A t \in Tasks :
        LET c == co[t]
            on == {Responses["lamp_on"], Responses["reserved"]}
            off == {Responses["standby"], Responses["cooling"], Responses["emergency"]}
        IN  (c.api = "async_is_on" /\ c.returned) =>
              /\ c.result \in on => c.outcome = "return" /\ c.ret = BoolValue(TRUE)
              /\ c.result \in off => c.outcome = "return" /\ c.ret = BoolValue(FALSE)
              /\ c.ret = BoolValue(TRUE) => c.result \in on

\* C12 as claimed: async_get_mac and async_get_model return, for every
\* non-empty response, the response without its 5 leading bytes and its
\* last byte, decoded as ASCII, and fail with JVCCommunicationError on an
\* empty response.
C12_EveryNonEmptyResponseDecodes ==
    \A t \in Tasks :
        LET c == co[t]
        IN  (c.api \in {"async_get_mac", "async_get_model"} /\ c.returned) =>
              IF c.result = << >>
              THEN c.outcome = "JVCCommunicationError"
              ELSE /\ c.outcome = "return"
                   /\ c.ret = StrValue(SubSeq(c.result, 6, Len(c.result) - 1))

\* C12 amended: the same for every non-empty response whose bytes between
\* the 5 leading bytes and the last byte are all ASCII (below 128); with a
\* byte of 128 or more among them the decoding raises UnicodeDecodeError.
C12_AsciiResponseDecodes ==
    \A t \in Tasks :
        LET c == co[t]
            rest == SubSeq(c.result, 6, Len(c.result) - 1)
        IN  (c.api \in {"async_get_mac", "async_get_model"} /\ c.entered) =>
              /\ c.operation = IF c.api = "async_get_mac"
                               THEN <<63, 137, 1, 76, 83, 77, 65, 10>>
                               ELSE <<63, 137, 1, 77, 68, 10>>
              /\ c.returned =>
                    IF c.result = << >>
                    THEN c.outcome = "JVCCommunicationError"
                    ELSE IF \A i \in 1..Len(rest) : rest[i] < 128
                         THEN c.outcome = "return" /\ c.ret = StrValue(rest)
                         ELSE c.outcome = "UnicodeDecodeError"

\* C12 witness: async_get_model returned "A" for the response
\* @\x89\x01MDA\n.
C12_Witness ==
    \E t \in Tasks :
        /\ co[t].api = "async_get_model"
        /\ co[t].result = <<64, 137, 1, 77, 68, 65, 10>>
        /\ co[t].ret = StrValue(<<65>>)

(***************************************************************************)
(* The whole catalog sent through the engine, with throttling off          *)
(***************************************************************************)
InitCatalog ==
    /\ InitWith({"t1"})
    /\ delay = 0

NextCatalog ==
    \E t \in Tasks :
        \/ async_command_catalog(t)
        \/ OpenConnection(t)
        \/ ReadGreeting(t)
        \/ ReadAck(t)
        \/ ReadCommandAck(t)
        \/ ReadResponse(t)
        \/ ReadRaises(t)

SpecCatalog == InitCatalog /\ [][NextCatalog]_vars

\* C13: every catalog command's payload starts with '!' or '?', and the
\* acknowledgement the engine expects for it is \x06\x89\x01, then the
\* payload's bytes at offsets 3 and 4, then \n: 3 + 2 + 1 = 6 bytes, which
\* is the size of the read the engine issues for it.
C13_CatalogHeaderAndAck ==
    /\ \A n \in DOMAIN Commands :
          LET payload == Commands[n]
          IN  /\ payload[1] \in {33, 63}
              /\ Len(payload) >= 5
              /\ ExpectedAck(payload) = <<6, 137, 1, payload[4], payload[5], 10>>
              /\ Len(ExpectedAck(payload)) = 3 + 2 + 1
    /\ \A t \in Tasks :
          LET c == co[t]
              r == DataReads(c)
              w == Writes(c)
          IN  (c.api = "async_command" /\ c.entered) =>
                /\ c.operation = Commands[c.arg]
                /\ Len(w) >= 2 => w[2].data = Commands[c.arg] /\ w[2].data[1] \in {33, 63}
                /\ Len(r) >= 3 => r[3].n = 6
                /\ c.returned => r[3].data = <<6, 137, 1, c.operation[4], c.operation[5], 10>>

\* C13 witness: the call for get_mac returned after the acknowledgement
\* \x06\x89\x01LS\n.
C13_Witness ==
    \E t \in Tasks :
        /\ co[t].arg = "get_mac"
        /\ co[t].returned
        /\ DataReads(co[t])[3] = ReadEvent(6, <<6, 137, 1, 76, 83, 10>>)

\* The step at position i of a transport's log failed: a read that raised,
\* or a read whose bytes differ from what the exchange expects there.
FailedStep(c, i) ==
    \/ c.log[i].op = "read_raised"
    \/ /\ c.log[i].op = "read"
       /\ \/ i = 1 /\ c.log[i].data # PJ_OK
          \/ i = 3 /\ c.log[i].data # PJACK
          \/ i = 5 /\ c.log[i].data # ExpectedAck(c.operation)

\* C14: one invocation of _async_send_command never retries: it opens at
\* most one connection, writes PJREQ at most once and the command payload
\* at most once, and the first failure (connect, greeting, PJACK, command
\* acknowledgement) is its last step: the error is raised with no read or
\* write after it.
C14_NoRetry ==
    \A t \in Tasks :
        LET c == co[t]
        IN  /\ c.connects <= 1
            /\ Cardinality({i \in 1..Len(c.log) : c.log[i].op = "write" /\ i <= 2}) <= 1
            /\ Cardinality({i \in 1..Len(c.log) : c.log[i].op = "write" /\ i > 2}) <= 1
            /\ \A i \in 1..Len(c.log) :
                  FailedStep(c, i) =>
                      /\ i = Len(c.log)
                      /\ c.pc = "done"
                      /\ c.outcome \in {"JVCHandshakeError", "JVCCommunicationError",
                                        "ConnectionResetError"}
            /\ c.connectResult \notin {"none", "connected"} =>
                  /\ c.pc = "done"
                  /\ c.log = << >>
                  /\ c.outcome \in {"JVCCannotConnectError", "TimeoutError", "OSError"}

\* C14 witness: an exchange ended in JVCCommunicationError right after the
\* acknowledgement read, on its one connection.
C14_Witness ==
    \E t \in Tasks :
        /\ co[t].pc = "done"
        /\ co[t].outcome = "JVCCommunicationError"
        /\ co[t].connects = 1
        /\ Len(co[t].log) = 5
        /\ FailedStep(co[t], 5)

\* C15: _last_command_time is written only when an exchange completes
\* successfully, after the transport is closed; an exchange that ends in a
\* connect, handshake or communication error leaves it as it was when the
\* exchange started, so the next throttle window is measured from the last
\* successful exchange (or from construction).
C15_TimestampOnlyOnSuccess ==
    \A t \in callers :
        LET c == co[t]
        IN  /\ ~c.returned => last = c.lastAtCall
            /\ c.returned =>
                  /\ ~c.open
                  /\ c.log[Len(c.log)] = CloseEvent
                  /\ last >= c.connAt
                  /\ last <= now
            /\ c.tsRead => c.delta = c.calledAt - c.lastAtCall

\* C15 witness: a second exchange failed in the handshake after time had
\* passed since the first one completed, and the timestamp is still that
\* of the first.
C15_Witness ==
    \E t \in callers :
        /\ calls = 2
        /\ co[t].pc = "done"
        /\ co[t].outcome = "JVCHandshakeError"
        /\ co[t].lastAtCall > 0
        /\ now > co[t].lastAtCall
        /\ last = co[t].lastAtCall

(***************************************************************************)
(* Two coroutines on one client, with the largest delay configured         *)
(***************************************************************************)
InitConc ==
    /\ InitWith(Tasks)
    /\ delay = MaxDelay

NextConc ==
    \/ Tick
    \/ \E t \in Tasks :
        \/ async_power_on(t)
        \/ Wake(t)
        \/ OpenConnection(t)
        \/ ReadGreeting(t)
        \/ ReadAck(t)
        \/ ReadCommandAck(t)

SpecConc == InitConc /\ [][NextConc]_vars

\* An exchange is in flight: called, and control not yet back with the caller.
InFlight(c) == c.entered /\ c.pc # "done"

\* C16: the engine does not serialize concurrent callers: a coroutine can
\* start an exchange whatever the other coroutine is doing, and its
\* throttle wait is computed from the shared timestamp alone, so two
\* exchanges computing their wait from the same timestamp and open at the
\* same time, less than the delay apart, are reachable (the witness).
C16_NoSerialization ==
    \A t \in callers :
        LET c == co[t]
        IN  /\ (c.pc \in {"idle", "done"} /\ calls < MaxCalls /\ now + delay <= MaxTime)
                  => ENABLED async_power_on(t)
            /\ c.entered =>
                  /\ c.delta = c.calledAt - c.lastAtCall
                  /\ c.sleepReq = IF c.delta < delay THEN delay - c.delta ELSE 0

\* C16 witness: both coroutines computed their wait from the same
\* timestamp, and both hold an open transport, opened less than the delay
\* apart.
C16_Witness ==
    /\ InFlight(co["t1"]) /\ InFlight(co["t2"])
    /\ co["t1"].lastAtCall = co["t2"].lastAtCall
    /\ co["t1"].open /\ co["t2"].open
    /\ co["t1"].connAt - co["t2"].connAt < delay
    /\ co["t2"].connAt - co["t1"].connAt < delay

\* C17: the throttle step is over before the connection is opened (no
\* transport of the exchange is open while _throttle sleeps), and a
\* successful exchange goes through throttle, connect, greeting read,
\* PJREQ write, PJACK read, command write, acknowledgement read, response
\* read (reference queries only), close, in that order.
C17_ThrottleFirstThenFixedOrder ==
    \A t \in callers :
        LET c == co[t]
            handshake == <<ReadEvent(5, PJ_OK), WriteEvent(PJREQ), ReadEvent(5, PJACK),
                           WriteEvent(c.operation)>>
        IN  /\ c.pc = "sleeping" =>
                  ~c.opened /\ ~c.open /\ c.connects = 0 /\ c.log = << >>
            /\ c.pc = "connecting" => ~c.opened /\ c.log = << >>
            /\ c.connects > 0 => now >= c.calledAt + c.sleepReq
            /\ c.opened => c.connAt >= c.calledAt + c.sleepReq
            /\ c.pc = "greeting" => c.open /\ c.log = << >>
            /\ c.pc = "ack" => c.open /\ c.log = SubSeq(handshake, 1, 2)
            /\ c.pc = "cmdack" => c.open /\ c.log = handshake
            /\ c.pc = "response" => c.open /\ Len(c.log) = 5 /\ SubSeq(c.log, 1, 4) = handshake
            /\ c.returned =>
                  /\ SubSeq(c.log, 1, 4) = handshake
                  /\ c.log[5].op = "read" /\ c.log[5].data = ExpectedAck(c.operation)
                  /\ IF c.operation[1] = 63
                     THEN /\ Len(c.log) = 7
                          /\ c.log[6] = ReadEvent(1024, c.result)
                          /\ c.log[7] = CloseEvent
                     ELSE /\ Len(c.log) = 6
                          /\ c.log[6] = CloseEvent

\* C17 witness: a reference query that was throttled has returned, with
\* its seven steps on the transport.
C17_Witness ==
    \E t \in callers :
        /\ co[t].returned
        /\ co[t].suspended
        /\ co[t].operation[1] = 63
        /\ Len(co[t].log) = 7

\* C18: _last_command_time starts as the time of construction (tick 0), so
\* with a delay d > 0 the first exchange, called at elapsed time e < d
\* after construction, is suspended for d - e before it connects, although
\* no exchange has completed yet.
C18_FirstExchangeThrottled ==
    \A t \in callers :
        LET c == co[t]
        IN  (calls = 1 /\ c.entered /\ delay > 0) =>
              /\ c.lastAtCall = 0
              /\ c.calledAt < delay =>
                    /\ c.suspended
                    /\ c.sleepReq = delay - c.calledAt
                    /\ c.connects > 0 => now >= delay
              /\ c.calledAt >= delay => ~c.suspended

\* C18 witness: the first exchange, called one tick after construction
\* with a delay of two ticks, sleeps for one tick.
C18_Witness ==
    \E t \in callers :
        /\ calls = 1
        /\ delay = 2
        /\ co[t].calledAt = 1
        /\ co[t].pc = "sleeping"
        /\ co[t].sleepReq = 1

====
